---- MODULE Spec2Model ----
(***************************************************************************)
(* A model of the geocoin game of src/src/main.ts: the cache/coin store,   *)
(* world generation (populateMap), marker visibility, collect/deposit,     *)
(* the localStorage snapshot and the geolocation mode.                     *)
(*                                                                         *)
(* Units.  A latitude or longitude is an integer number of POSITION_ADJUST *)
(* steps (0.0001 degree) counted from OAKES_CLASSROOM_POSITION, so a       *)
(* directional move changes a coordinate by 1 and one degree is            *)
(* DegreeUnits steps.  A luck value is an integer number of thousandths.   *)
(* Math.random() is an integer number of tenths.                           *)
(***************************************************************************)
EXTENDS Integers, Sequences, FiniteSets, TLC

VARIABLES
    playerPosition,      \* playerMarker.getLatLng()
    origin,              \* point at which the markers are anchored
    globalSerialCounter, \* next coin serial
    collectedCoins,      \* the inventory, a sequence of coins
    geoLocation,         \* geolocation mode flag
    caches,              \* Map key -> [cell, coins]
    cacheMarkers,        \* keys of the Map cacheMarkers
    arrowsDisabled,      \* Keys.north/south/west/east .disabled
    geoWatchId,          \* Null or <<id>>
    watches,             \* ids the browser is watching positions for
    movementHistory,     \* Null or <<sequence of positions>> (the polyline)
    lastPosition,        \* Null or <<position>>
    savedState,          \* localStorage "gameState": Null or <<GameState>>
    lastEvent,           \* the handler that ran last and the branch it took
    coinsCreated         \* calls of getOrCreateCoin since the first page load

vars == <<playerPosition, origin, globalSerialCounter, collectedCoins,
          geoLocation, caches, cacheMarkers, arrowsDisabled, geoWatchId,
          watches, movementHistory, lastPosition, savedState, lastEvent,
          coinsCreated>>

---------------------------------------------------------------------------
\* Bounds of the model.

\* The player stays within |lat| + |lng| <= MaxStep steps of the classroom.
MaxStep == 1
\* At most this many coins are created, over all page loads: Math.random()
\* returns no value that would create more.
MaxCoins == 2
\* Math.random() is drawn from 0/10 .. MaxRandom/10.
MaxRandom == 1
\* The polyline holds at most this many points.
MaxTrail == 1

---------------------------------------------------------------------------
\* Gameplay parameters.

CACHE_SPAWN_GRID_SIZE == 8
\* 0.05, in thousandths
CACHE_SPAWN_CHANCE == 50
\* 0.0001 degree is one step
POSITION_ADJUST == 1
\* metres
PLAYER_RADIUS == 50
\* one degree in steps: 1 / POSITION_ADJUST(0.0001)
DegreeUnits == 10000
\* the factor of Math.random() in the initial coin count
COIN_FACTOR == 5
\* minimum displacement, in metres, for a new polyline point
TRAIL_THRESHOLD == 3

Null == <<>>

LatLng(lat, lng) == [lat |-> lat, lng |-> lng]

OAKES_CLASSROOM_POSITION == LatLng(0, 0)

Abs(x) == IF x < 0 THEN -x ELSE x

InWindow(p) == Abs(p.lat) + Abs(p.lng) <= MaxStep

Positions ==
    {p \in {LatLng(a, b) : a \in -MaxStep..MaxStep, b \in -MaxStep..MaxStep} :
        InWindow(p)}

---------------------------------------------------------------------------
\* luck(key): a deterministic value in [0, 1), here in thousandths.  The key
\* is the text of a pair of numbers; the pair stands for its text.

LuckKey(a, b) == <<a, b>>

luck(key) ==
    LET r == (73 * key[1] + 68 * key[2] + 1) % 2003
    IN  CASE r = 0 -> 0
          [] r = 1 -> 30
          [] r = 2 -> 50
          [] OTHER -> 100 + ((r * 7) % 900)

---------------------------------------------------------------------------
\* Cells, keys and positions.

Cell(i, j) == [i |-> i, j |-> j]

\* `${i},${j}`
Key(i, j) == <<i, j>>

GridWidth == 2 * CACHE_SPAWN_GRID_SIZE + 1

\* The cells in the order populateMap's two loops visit them.
GridSeq ==
    [n \in 1..(GridWidth * GridWidth) |->
        Cell(((n - 1) \div GridWidth) - CACHE_SPAWN_GRID_SIZE,
             ((n - 1) % GridWidth) - CACHE_SPAWN_GRID_SIZE)]

getCachePosition(org, i, j) ==
    LatLng(org.lat + i * POSITION_ADJUST, org.lng + j * POSITION_ADJUST)

\* leaflet's distanceTo near the classroom, squared, in cm^2: one step of
\* latitude is 11.12 m and one step of longitude 8.88 m there.
LatStepCm == 1112
LngStepCm == 888

DistanceSq(p, q) ==
    ((p.lat - q.lat) * LatStepCm) * ((p.lat - q.lat) * LatStepCm)
      + ((p.lng - q.lng) * LngStepCm) * ((p.lng - q.lng) * LngStepCm)

\* distance >= metres: the comparison turned round
BeyondMetres(p, q, metres) == DistanceSq(p, q) >= (metres * 100) * (metres * 100)

\* distance <= metres
WithinMetres(p, q, metres) == DistanceSq(p, q) <= (metres * 100) * (metres * 100)

---------------------------------------------------------------------------
\* The store.

EmptyStore == [k \in {} |-> [cell |-> Cell(0, 0), coins |-> <<>>]]

getOrCreateCoin(cell, counter) == [cell |-> cell, serial |-> counter]

getOrCreateCache(store, i, j) ==
    IF Key(i, j) \in DOMAIN store
    THEN store
    ELSE [k \in DOMAIN store \cup {Key(i, j)} |->
            IF k = Key(i, j) THEN [cell |-> Cell(i, j), coins |-> <<>>]
            ELSE store[k]]

\* cache.coins.push(coin) on the cache under key, when there is one
PushCoin(store, key, coin) ==
    [k \in DOMAIN store |->
        IF k = key THEN [store[k] EXCEPT !.coins = Append(@, coin)]
        ELSE store[k]]

---------------------------------------------------------------------------
\* World generation.

\* Math.ceil(Math.random() * 5), Math.random() in tenths
InitialCoins(rand) == (rand * COIN_FACTOR + 9) \div 10

\* luckValue <= CACHE_SPAWN_CHANCE: the threshold itself passes
SpawnsAtThreshold(luckValue) == luckValue <= CACHE_SPAWN_CHANCE

\* luckValue < CACHE_SPAWN_CHANCE
Spawns(luckValue) == luckValue < CACHE_SPAWN_CHANCE

\* luck([origin.lat + i, origin.lng + j].toString()): i and j are added to
\* the origin's degrees.
CellLuck(org, i, j) ==
    luck(LuckKey(org.lat + i * DegreeUnits, org.lng + j * DegreeUnits))

\* The cells that pass the spawn test, in loop order, for each origin of the
\* window.
SpawnTable ==
    [org \in Positions |->
        SelectSeq(GridSeq, LAMBDA c : Spawns(CellLuck(org, c.i, c.j)))]

SpawnCells(org) == SpawnTable[org]

RECURSIVE CreateCoins(_, _, _, _, _)
\* for (let c = 0; c < initialCoins; c++) cache.coins.push(getOrCreateCoin({i, j}))
CreateCoins(store, cell, counter, c, initialCoins) ==
    IF c >= initialCoins
    THEN [caches |-> store, counter |-> counter]
    ELSE CreateCoins(PushCoin(store, Key(cell.i, cell.j),
                              getOrCreateCoin(cell, counter)),
                     cell, counter + 1, c + 1, initialCoins)

RECURSIVE PopulateLoop(_, _, _, _, _)
\* The body of the two loops for the n-th spawning cell; rands[n] is the
\* value Math.random() returns there.
PopulateLoop(cells, rands, n, store, counter) ==
    IF n > Len(cells)
    THEN [caches |-> store, counter |-> counter]
    ELSE LET cell == cells[n]
             made == CreateCoins(getOrCreateCache(store, cell.i, cell.j),
                                 cell, counter, 0, InitialCoins(rands[n]))
         IN  PopulateLoop(cells, rands, n + 1, made.caches, made.counter)

\* The keys of the caches within radius metres of pos.
VisibleWithin(store, org, pos, radius) ==
    {k \in DOMAIN store :
        WithinMetres(pos,
                     getCachePosition(org, store[k].cell.i, store[k].cell.j),
                     radius)}

\* updateCacheVisibility without the distance test: a marker for every cache
updateCacheVisibilityAll(store, org, pos) == DOMAIN store

\* clearMapMarkers, then a marker for every cache in range: the new key set
\* of cacheMarkers.
updateCacheVisibility(store, org, pos) ==
    VisibleWithin(store, org, pos, PLAYER_RADIUS)

\* clearCachesAndMarkers: the store it leaves.
clearCachesAndMarkers == EmptyStore

\* populateMap with the player at pos.
populateMap(pos, counter, rands) ==
    LET res == PopulateLoop(SpawnCells(pos), rands, 1,
                            clearCachesAndMarkers, counter)
    IN  [origin  |-> pos,
         caches  |-> res.caches,
         counter |-> res.counter,
         markers |-> updateCacheVisibility(res.caches, pos, pos)]

\* The values Math.random() may return during one populateMap at pos.
RandDraws(pos) == [1..Len(SpawnCells(pos)) -> 0..MaxRandom]

---------------------------------------------------------------------------
\* collect and deposit.

\* findIndex whose -1 is used as an index: splice(-1, 1) takes the last coin
findIndexFromEnd(coins, serial) ==
    IF \E n \in 1..Len(coins) : coins[n].serial = serial
    THEN CHOOSE n \in 1..Len(coins) :
            /\ coins[n].serial = serial
            /\ \A m \in 1..(n - 1) : coins[m].serial # serial
    ELSE Len(coins)

\* coins.findIndex(coin => coin.serial === serial), counting from 1; 0 for -1
findIndex(coins, serial) ==
    IF \E n \in 1..Len(coins) : coins[n].serial = serial
    THEN CHOOSE n \in 1..Len(coins) :
            /\ coins[n].serial = serial
            /\ \A m \in 1..(n - 1) : coins[m].serial # serial
    ELSE 0

\* coins.slice(n, n + 1) in place of splice: the array is left as it was
slice(coins, n) == coins

\* coins.splice(n, 1): the array it leaves
splice(coins, n) ==
    [m \in 1..(Len(coins) - 1) |-> IF m < n THEN coins[m] ELSE coins[m + 1]]

\* coins.shift() in place of coins.pop(): first in, first out
shift(coins) == [coin |-> coins[1], rest |-> Tail(coins)]

\* collectedCoins.pop() on a non-empty array: the coin it returns and the
\* array it leaves
pop(coins) ==
    [coin |-> coins[Len(coins)], rest |-> SubSeq(coins, 1, Len(coins) - 1)]

\* collect with collectedCoins.unshift(coin) in place of push
collectUnshift(store, inv, cell, serial) ==
    LET key == Key(cell.i, cell.j)
        coinIndex == IF key \in DOMAIN store
                     THEN findIndex(store[key].coins, serial) ELSE 0
    IN  IF key \in DOMAIN store /\ coinIndex # 0
        THEN [caches |-> [k \in DOMAIN store |->
                            IF k = key
                            THEN [store[k] EXCEPT !.coins = splice(@, coinIndex)]
                            ELSE store[k]],
              inv    |-> <<store[key].coins[coinIndex]>> \o inv,
              done   |-> TRUE]
        ELSE [caches |-> store, inv |-> inv, done |-> FALSE]

collect(store, inv, cell, serial) ==
    LET key == Key(cell.i, cell.j)
        coinIndex == IF key \in DOMAIN store
                     THEN findIndex(store[key].coins, serial) ELSE 0
    IN  IF key \in DOMAIN store /\ coinIndex # 0
        THEN [caches |-> [k \in DOMAIN store |->
                            IF k = key
                            THEN [store[k] EXCEPT !.coins = splice(@, coinIndex)]
                            ELSE store[k]],
              inv    |-> Append(inv, store[key].coins[coinIndex]),
              done   |-> TRUE]
        ELSE [caches |-> store, inv |-> inv, done |-> FALSE]

\* collectedCoins.length > 0 alone: the cache is not looked at
CanDepositAnywhere(store, inv, key) == Len(inv) > 0

\* cache && collectedCoins.length > 0
CanDeposit(store, inv, key) == key \in DOMAIN store /\ Len(inv) > 0

\* deposit without coinToDeposit.cell = cell
depositKeepCell(store, inv, cell) ==
    LET key == Key(cell.i, cell.j)
    IN  IF CanDeposit(store, inv, key)
        THEN [caches |-> PushCoin(store, key, pop(inv).coin),
              inv    |-> pop(inv).rest,
              done   |-> TRUE]
        ELSE [caches |-> store, inv |-> inv, done |-> FALSE]

deposit(store, inv, cell) ==
    LET key == Key(cell.i, cell.j)
    IN  IF CanDeposit(store, inv, key)
        THEN [caches |-> PushCoin(store, key,
                                  [pop(inv).coin EXCEPT !.cell = cell]),
              inv    |-> pop(inv).rest,
              done   |-> TRUE]
        ELSE [caches |-> store, inv |-> inv, done |-> FALSE]

---------------------------------------------------------------------------
\* The snapshot in localStorage.

\* populateMap's loop order on keys
KeyBefore(a, b) == a[1] < b[1] \/ (a[1] = b[1] /\ a[2] < b[2])

RECURSIVE InLoopOrder(_)
InLoopOrder(keys) ==
    IF keys = {} THEN <<>>
    ELSE LET first == CHOOSE a \in keys : \A b \in keys \ {a} : KeyBefore(a, b)
         IN  <<first>> \o InLoopOrder(keys \ {first})

\* Array.from(caches.entries()): a Map iterates in insertion order, and every
\* insertion is made in populateMap's loop order or in a snapshot's order.
Entries(store) == InLoopOrder(DOMAIN store)

\* The GameState that saveGameState writes (JSON.stringify of it).
saveGameState(pos, inv, store) ==
    LET keys == Entries(store)
    IN  <<[playerPosition |-> [lat |-> pos.lat, lng |-> pos.lng],
           collectedCoins |-> inv,
           cacheState     |->
               [n \in 1..Len(keys) |->
                   [key   |-> keys[n],
                    cache |-> [cell  |-> store[keys[n]].cell,
                               coins |-> store[keys[n]].coins]]]]>>

\* caches.clear(), then caches.set(key, {cell, coins}) for each entry: a later
\* entry of a key replaces an earlier one.
RestoreCaches(cacheState) ==
    [k \in {cacheState[n].key : n \in 1..Len(cacheState)} |->
        LET n == CHOOSE n \in 1..Len(cacheState) :
                    /\ cacheState[n].key = k
                    /\ \A m \in (n + 1)..Len(cacheState) : cacheState[m].key # k
        IN  [cell  |-> cacheState[n].cache.cell,
             coins |-> cacheState[n].cache.coins]]

\* A text in the slot that is no JSON text.
MalformedText == [text |-> "{"]

\* JSON.parse(text) returns: the text is one JSON.stringify wrote.
IsJSON(text) == "text" \notin DOMAIN text

\* What loadGameState leaves when it changes nothing: cur, and whether it
\* threw.
Unloaded(cur, threw) ==
    [playerPosition |-> cur.playerPosition,
     origin         |-> cur.origin,
     collectedCoins |-> cur.collectedCoins,
     caches         |-> cur.caches,
     threw          |-> threw]

\* loadGameState that leaves collectedCoins as it is
loadGameStateKeepInventory(slot, cur) ==
    IF slot # Null
    THEN IF IsJSON(slot[1])
         THEN LET gameState == slot[1]
                  restoredPosition == LatLng(gameState.playerPosition.lat,
                                             gameState.playerPosition.lng)
              IN  [playerPosition |-> restoredPosition,
                   origin         |-> restoredPosition,
                   collectedCoins |-> cur.collectedCoins,
                   caches         |-> RestoreCaches(gameState.cacheState),
                   threw          |-> FALSE]
         ELSE Unloaded(cur, TRUE)
    ELSE Unloaded(cur, FALSE)

\* loadGameState on the slot's content, from the state cur.  JSON.parse
\* throws a SyntaxError on a malformed text, before anything is restored.
loadGameState(slot, cur) ==
    IF slot # Null
    THEN IF IsJSON(slot[1])
         THEN LET gameState == slot[1]
                  restoredPosition == LatLng(gameState.playerPosition.lat,
                                             gameState.playerPosition.lng)
              IN  [playerPosition |-> restoredPosition,
                   origin         |-> restoredPosition,
                   collectedCoins |-> gameState.collectedCoins,
                   caches         |-> RestoreCaches(gameState.cacheState),
                   threw          |-> FALSE]
         ELSE Unloaded(cur, TRUE)
    ELSE Unloaded(cur, FALSE)

---------------------------------------------------------------------------
\* Geolocation mode.

\* disabled = enabled: the negation left out
toggleArrowKeyControlsPlain(enabled) == enabled

\* toggleArrowKeyControls(enabled): the buttons' disabled attribute
toggleArrowKeyControls(enabled) == ~enabled

\* navigator.geolocation.watchPosition returns an id no active watch has.
NewWatchId(ws) ==
    CHOOSE id \in 1..(Cardinality(ws) + 1) :
        id \notin ws /\ \A other \in 1..(id - 1) : other \in ws

\* activateGeoTracking that does not call clearWatch when it turns tracking
\* off
activateGeoTrackingNoClear(geo, watchId, ws, lastPos) ==
    IF ~geo
    THEN [geoLocation     |-> TRUE,
          movementHistory |-> << <<>> >>,
          arrowsDisabled  |-> toggleArrowKeyControls(FALSE),
          geoWatchId      |-> <<NewWatchId(ws)>>,
          watches         |-> ws \cup {NewWatchId(ws)},
          lastPosition    |-> lastPos]
    ELSE [geoLocation     |-> FALSE,
          movementHistory |-> Null,
          arrowsDisabled  |-> toggleArrowKeyControls(TRUE),
          geoWatchId      |-> Null,
          watches         |-> ws,
          lastPosition    |-> Null]

activateGeoTracking(geo, watchId, ws, lastPos) ==
    IF ~geo
    THEN [geoLocation     |-> TRUE,
          movementHistory |-> << <<>> >>,
          arrowsDisabled  |-> toggleArrowKeyControls(FALSE),
          geoWatchId      |-> <<NewWatchId(ws)>>,
          watches         |-> ws \cup {NewWatchId(ws)},
          lastPosition    |-> lastPos]
    ELSE [geoLocation     |-> FALSE,
          movementHistory |-> Null,
          arrowsDisabled  |-> toggleArrowKeyControls(TRUE),
          geoWatchId      |-> Null,
          watches         |-> IF watchId # Null THEN ws \ {watchId[1]} ELSE ws,
          lastPosition    |-> Null]

\* lastPosition === null || geolocationPosition.distanceTo(lastPosition) > 3
MovedSignificantly(pos, lastPos) ==
    lastPos = Null \/ ~WithinMetres(pos, lastPos[1], TRAIL_THRESHOLD)

---------------------------------------------------------------------------
\* Startup whose loadGameState does not clear the store first: the caches
\* populateMap has just generated stay beside the loaded ones.

StartupMerge(slot, rands) ==
    LET fresh  == populateMap(OAKES_CLASSROOM_POSITION, 0, rands)
        loaded == loadGameState(slot,
                     [playerPosition |-> OAKES_CLASSROOM_POSITION,
                      origin         |-> fresh.origin,
                      collectedCoins |-> <<>>,
                      caches         |-> fresh.caches])
        merged == [k \in DOMAIN fresh.caches \cup DOMAIN loaded.caches |->
                      IF k \in DOMAIN loaded.caches THEN loaded.caches[k]
                      ELSE fresh.caches[k]]
    IN  [playerPosition      |-> loaded.playerPosition,
         origin              |-> loaded.origin,
         globalSerialCounter |-> fresh.counter,
         collectedCoins      |-> loaded.collectedCoins,
         caches              |-> merged,
         cacheMarkers        |-> IF loaded.threw
                                 THEN fresh.markers
                                 ELSE updateCacheVisibility(merged,
                                          loaded.origin, loaded.origin),
         threw               |-> loaded.threw]

\* Startup: the module's top-level statements, with the slot's content.  When
\* loadGameState throws, the script ends there: the updateCacheVisibility
\* after it does not run, and the markers are those populateMap left.
Startup(slot, rands) ==
    LET fresh  == populateMap(OAKES_CLASSROOM_POSITION, 0, rands)
        loaded == loadGameState(slot,
                     [playerPosition |-> OAKES_CLASSROOM_POSITION,
                      origin         |-> fresh.origin,
                      collectedCoins |-> <<>>,
                      caches         |-> fresh.caches])
    IN  [playerPosition      |-> loaded.playerPosition,
         origin              |-> loaded.origin,
         globalSerialCounter |-> fresh.counter,
         collectedCoins      |-> loaded.collectedCoins,
         caches              |-> loaded.caches,
         cacheMarkers        |-> IF loaded.threw
                                 THEN fresh.markers
                                 ELSE updateCacheVisibility(loaded.caches,
                                          loaded.origin, loaded.origin),
         threw               |-> loaded.threw]

Init ==
    \E rands \in RandDraws(OAKES_CLASSROOM_POSITION) :
        LET s == Startup(Null, rands)
        IN  /\ playerPosition = s.playerPosition
            /\ origin = s.origin
            /\ globalSerialCounter = s.globalSerialCounter
            /\ collectedCoins = s.collectedCoins
            /\ caches = s.caches
            /\ cacheMarkers = s.cacheMarkers
            /\ geoLocation = FALSE
            /\ arrowsDisabled = FALSE
            /\ geoWatchId = Null
            /\ watches = {}
            /\ movementHistory = Null
            /\ lastPosition = Null
            /\ savedState = Null
            /\ lastEvent = "startup"
            /\ coinsCreated = s.globalSerialCounter

\* The page is loaded again: every variable of the script starts over, the
\* browser drops the page's watches, localStorage stays.
Reload ==
    \E rands \in RandDraws(OAKES_CLASSROOM_POSITION) :
        LET s == Startup(savedState, rands)
        IN  /\ coinsCreated + s.globalSerialCounter <= MaxCoins
            /\ coinsCreated' = coinsCreated + s.globalSerialCounter
            /\ playerPosition' = s.playerPosition
            /\ origin' = s.origin
            /\ globalSerialCounter' = s.globalSerialCounter
            /\ collectedCoins' = s.collectedCoins
            /\ caches' = s.caches
            /\ cacheMarkers' = s.cacheMarkers
            /\ geoLocation' = FALSE
            /\ arrowsDisabled' = FALSE
            /\ geoWatchId' = Null
            /\ watches' = {}
            /\ movementHistory' = Null
            /\ lastPosition' = Null
            /\ lastEvent' = IF s.threw THEN "startupError" ELSE "startup"
            /\ UNCHANGED savedState

\* The slot's text is damaged outside the script (another script of the
\* origin, the developer tools, a truncated write).
CorruptSlot ==
    /\ savedState # <<MalformedText>>
    /\ savedState' = <<MalformedText>>
    /\ UNCHANGED <<playerPosition, origin, globalSerialCounter,
                   collectedCoins, geoLocation, caches, cacheMarkers,
                   arrowsDisabled, geoWatchId, watches, movementHistory,
                   lastPosition, lastEvent, coinsCreated>>

---------------------------------------------------------------------------
\* The handlers.

Directions == {"north", "south", "west", "east"}

\* movePlayer's switch
NewPosition(currentPosition, direction) ==
    CASE direction = "north" ->
            LatLng(currentPosition.lat + POSITION_ADJUST, currentPosition.lng)
      [] direction = "south" ->
            LatLng(currentPosition.lat - POSITION_ADJUST, currentPosition.lng)
      [] direction = "west" ->
            LatLng(currentPosition.lat, currentPosition.lng - POSITION_ADJUST)
      [] direction = "east" ->
            LatLng(currentPosition.lat, currentPosition.lng + POSITION_ADJUST)

\* movePlayer that runs populateMap at the new position
movePlayerRepopulate(direction) ==
    LET newPosition == NewPosition(playerPosition, direction)
    IN  /\ ~arrowsDisabled
        /\ InWindow(newPosition)
        /\ \E rands \in RandDraws(newPosition) :
              LET w == populateMap(newPosition, globalSerialCounter, rands)
              IN  /\ coinsCreated + w.counter - globalSerialCounter <= MaxCoins
                  /\ coinsCreated'
                        = coinsCreated + w.counter - globalSerialCounter
                  /\ playerPosition' = newPosition
                  /\ origin' = w.origin
                  /\ caches' = w.caches
                  /\ globalSerialCounter' = w.counter
                  /\ cacheMarkers' = w.markers
                  /\ savedState'
                        = saveGameState(newPosition, collectedCoins, w.caches)
        /\ lastEvent' = "move"
        /\ UNCHANGED <<collectedCoins, geoLocation, arrowsDisabled,
                       geoWatchId, watches, movementHistory, lastPosition>>

\* A click on an arrow button; a disabled button takes no click.
movePlayer(direction) ==
    LET newPosition == NewPosition(playerPosition, direction)
    IN  /\ ~arrowsDisabled
        /\ InWindow(newPosition)
        /\ playerPosition' = newPosition
        /\ cacheMarkers' = updateCacheVisibility(caches, origin, newPosition)
        /\ savedState' = saveGameState(newPosition, collectedCoins, caches)
        /\ lastEvent' = "move"
        /\ UNCHANGED <<origin, globalSerialCounter, collectedCoins,
                       geoLocation, caches, arrowsDisabled, geoWatchId,
                       watches, movementHistory, lastPosition, coinsCreated>>

\* The cells collect and deposit are called with: every cell that holds a
\* cache for some origin of the window, so a cell with and without a cache.
TransferCells ==
    {GridSeq[n] : n \in
        {m \in DOMAIN GridSeq :
            \E o \in Positions : Spawns(CellLuck(o, GridSeq[m].i, GridSeq[m].j))}}

\* The serials collect is called with: every serial a coin can have, and one
\* no coin has.
Serials == 0..MaxCoins

Collect(cell, serial) ==
    LET r == collect(caches, collectedCoins, cell, serial)
    IN  /\ caches' = r.caches
        /\ collectedCoins' = r.inv
        /\ savedState' = saveGameState(playerPosition, r.inv, r.caches)
        /\ lastEvent' = IF r.done THEN "collect" ELSE "collectNoop"
        /\ UNCHANGED <<playerPosition, origin, globalSerialCounter,
                       geoLocation, cacheMarkers, arrowsDisabled, geoWatchId,
                       watches, movementHistory, lastPosition, coinsCreated>>

Deposit(cell) ==
    LET r == deposit(caches, collectedCoins, cell)
    IN  /\ caches' = r.caches
        /\ collectedCoins' = r.inv
        /\ savedState' = saveGameState(playerPosition, r.inv, r.caches)
        /\ lastEvent' = IF r.done THEN "deposit" ELSE "depositNoop"
        /\ UNCHANGED <<playerPosition, origin, globalSerialCounter,
                       geoLocation, cacheMarkers, arrowsDisabled, geoWatchId,
                       watches, movementHistory, lastPosition, coinsCreated>>

\* Keys.geo's click: activateGeoTracking(); populateMap();
GeoClick ==
    \E rands \in RandDraws(playerPosition) :
        LET g == activateGeoTracking(geoLocation, geoWatchId, watches,
                                     lastPosition)
            w == populateMap(playerPosition, globalSerialCounter, rands)
        IN  /\ coinsCreated + w.counter - globalSerialCounter <= MaxCoins
            /\ coinsCreated' = coinsCreated + w.counter - globalSerialCounter
            /\ geoLocation' = g.geoLocation
            /\ movementHistory' = g.movementHistory
            /\ arrowsDisabled' = g.arrowsDisabled
            /\ geoWatchId' = g.geoWatchId
            /\ watches' = g.watches
            /\ lastPosition' = g.lastPosition
            /\ origin' = w.origin
            /\ caches' = w.caches
            /\ globalSerialCounter' = w.counter
            /\ cacheMarkers' = w.markers
            /\ lastEvent' = "geoToggle"
            /\ UNCHANGED <<playerPosition, collectedCoins, savedState>>

\* What prompt() returns: Null when cancelled, else <<the text typed>>.
Answers == {Null, <<"yes">>, <<"YES">>, <<"no">>}

toLowerCase(text) == IF text = "YES" THEN "yes" ELSE text

\* confirmLoad?.toLowerCase() !== "no": a cancelled prompt confirms
ConfirmedUnlessNo(answer) == answer = Null \/ toLowerCase(answer[1]) # "no"

\* confirmLoad?.toLowerCase() === "yes"
Confirmed(answer) == answer # Null /\ toLowerCase(answer[1]) = "yes"

\* Keys.reset's click with saveGameState called before the inventory is
\* emptied
ResetClickSaveFirst(answer) ==
    IF Confirmed(answer)
    THEN \E rands \in RandDraws(playerPosition) :
            LET w == populateMap(playerPosition, globalSerialCounter, rands)
            IN  /\ coinsCreated + w.counter - globalSerialCounter <= MaxCoins
                /\ coinsCreated' = coinsCreated + w.counter - globalSerialCounter
                /\ origin' = w.origin
                /\ caches' = w.caches
                /\ globalSerialCounter' = w.counter
                /\ cacheMarkers' =
                      updateCacheVisibility(w.caches, w.origin, playerPosition)
                /\ collectedCoins' = <<>>
                /\ savedState' =
                      saveGameState(playerPosition, collectedCoins, w.caches)
                /\ movementHistory' = Null
                /\ lastEvent' = "reset"
                /\ UNCHANGED <<playerPosition, geoLocation, arrowsDisabled,
                               geoWatchId, watches, lastPosition>>
    ELSE /\ lastEvent' = "resetDeclined"
         /\ UNCHANGED <<playerPosition, origin, globalSerialCounter,
                        collectedCoins, geoLocation, caches, cacheMarkers,
                        arrowsDisabled, geoWatchId, watches, movementHistory,
                        lastPosition, savedState, coinsCreated>>

\* Keys.reset's click
ResetClick(answer) ==
    IF Confirmed(answer)
    THEN \E rands \in RandDraws(playerPosition) :
            LET w == populateMap(playerPosition, globalSerialCounter, rands)
            IN  /\ coinsCreated + w.counter - globalSerialCounter <= MaxCoins
                /\ coinsCreated' = coinsCreated + w.counter - globalSerialCounter
                /\ origin' = w.origin
                /\ caches' = w.caches
                /\ globalSerialCounter' = w.counter
                /\ cacheMarkers' =
                      updateCacheVisibility(w.caches, w.origin, playerPosition)
                /\ collectedCoins' = <<>>
                /\ savedState' = saveGameState(playerPosition, <<>>, w.caches)
                /\ movementHistory' = Null
                /\ lastEvent' = "reset"
                /\ UNCHANGED <<playerPosition, geoLocation, arrowsDisabled,
                               geoWatchId, watches, lastPosition>>
    ELSE /\ lastEvent' = "resetDeclined"
         /\ UNCHANGED <<playerPosition, origin, globalSerialCounter,
                        collectedCoins, geoLocation, caches, cacheMarkers,
                        arrowsDisabled, geoWatchId, watches, movementHistory,
                        lastPosition, savedState, coinsCreated>>

\* watchPosition's success callback with a fix at pos.  addLatLng on a null
\* movementHistory throws, and the rest of the callback does not run.
GeoFix(pos) ==
    /\ watches # {}
    /\ playerPosition' = pos
    /\ origin' = pos
    /\ IF MovedSignificantly(pos, lastPosition)
       THEN IF movementHistory = Null
            THEN /\ lastEvent' = "geoFixError"
                 /\ UNCHANGED <<movementHistory, lastPosition, cacheMarkers>>
            ELSE /\ Len(movementHistory[1]) < MaxTrail
                 /\ movementHistory' = <<Append(movementHistory[1], pos)>>
                 /\ lastPosition' = <<pos>>
                 /\ cacheMarkers' = updateCacheVisibility(caches, pos, pos)
                 /\ lastEvent' = "geoFix"
       ELSE /\ cacheMarkers' = updateCacheVisibility(caches, pos, pos)
            /\ lastEvent' = "geoFix"
            /\ UNCHANGED <<movementHistory, lastPosition>>
    /\ UNCHANGED <<globalSerialCounter, collectedCoins, geoLocation, caches,
                   arrowsDisabled, geoWatchId, watches, savedState,
                   coinsCreated>>

\* watchPosition's error callback: console.error and alert
GeoError ==
    /\ watches # {}
    /\ lastEvent' = "geoError"
    /\ UNCHANGED <<playerPosition, origin, globalSerialCounter,
                   collectedCoins, geoLocation, caches, cacheMarkers,
                   arrowsDisabled, geoWatchId, watches, movementHistory,
                   lastPosition, savedState, coinsCreated>>

\* The fixes the sensor reports: the points of the window north of the
\* classroom.
FixPositions == {p \in Positions : p.lng = 0 /\ p.lat >= 1}

Next ==
    \/ \E direction \in Directions : movePlayer(direction)
    \/ \E cell \in TransferCells, serial \in Serials : Collect(cell, serial)
    \/ \E cell \in TransferCells : Deposit(cell)
    \/ GeoClick
    \/ \E answer \in Answers : ResetClick(answer)
    \/ \E pos \in FixPositions : GeoFix(pos)
    \/ GeoError
    \/ Reload
    \/ CorruptSlot

Spec == Init /\ [][Next]_vars

---------------------------------------------------------------------------
\* Properties.

\* The places a coin can be in a store: <<key, index>>.
CoinSlots(store) ==
    UNION {{<<k, n>> : n \in 1..Len(store[k].coins)} : k \in DOMAIN store}

\* The number of coins with the serial, in the store and the inventory.
SerialCount(store, inv, serial) ==
    Cardinality({slot \in CoinSlots(store) :
                    store[slot[1]].coins[slot[2]].serial = serial})
      + Cardinality({n \in 1..Len(inv) : inv[n].serial = serial})

CoinTotal(store, inv) == Cardinality(CoinSlots(store)) + Len(inv)

HasCoin(store, cell, serial) ==
    /\ Key(cell.i, cell.j) \in DOMAIN store
    /\ \E n \in 1..Len(store[Key(cell.i, cell.j)].coins) :
          store[Key(cell.i, cell.j)].coins[n].serial = serial

\* A collect or a deposit, with any arguments.
TransferStep ==
    \/ \E cell \in TransferCells, serial \in Serials : Collect(cell, serial)
    \/ \E cell \in TransferCells : Deposit(cell)

\* The store is as populateMap left it.
JustGenerated ==
    \/ lastEvent \in {"reset", "geoToggle"}
    \/ lastEvent = "startup" /\ savedState = Null

\* C1. Conservation: a collect or a deposit, whatever its arguments, leaves
\* the number of coins with each serial in caches plus inventory as it was,
\* hence the total too, and creates no coin: no coin is lost or duplicated,
\* and the total stays the number of coins world generation created.
C1_Conservation ==
    [][TransferStep =>
          /\ \A serial \in Serials :
                SerialCount(caches', collectedCoins', serial)
                    = SerialCount(caches, collectedCoins, serial)
          /\ CoinTotal(caches', collectedCoins')
                = CoinTotal(caches, collectedCoins)
          /\ globalSerialCounter' = globalSerialCounter]_vars

\* Both coins of the world have been moved into one cache by deposits.
C1_Witness ==
    /\ lastEvent = "deposit"
    /\ \E k \in DOMAIN caches : Len(caches[k].coins) = 2
    /\ CoinTotal(caches, collectedCoins) = globalSerialCounter

\* C2. Serials are unique: no serial is carried by two coins of the caches
\* and the inventory, in any state reached by moves, transfers, resets,
\* geolocation toggles and page reloads.
C2_SerialsUnique ==
    \A serial \in Serials : SerialCount(caches, collectedCoins, serial) <= 1

\* C3. Deposit is last in, first out: a collect that finds its coin appends
\* it to the inventory, and a deposit on an existing cache with a non-empty
\* inventory removes exactly the last inventory element, sets its cell to the
\* target cell and appends it to the target cache's coins, leaving every
\* other cache alone.
C3_DepositLIFO ==
    [][/\ \A cell \in TransferCells, serial \in Serials :
            (Collect(cell, serial) /\ HasCoin(caches, cell, serial)) =>
                /\ Len(collectedCoins') = Len(collectedCoins) + 1
                /\ SubSeq(collectedCoins', 1, Len(collectedCoins))
                      = collectedCoins
                /\ collectedCoins'[Len(collectedCoins')].serial = serial
       /\ \A cell \in TransferCells :
            (/\ Deposit(cell)
             /\ Key(cell.i, cell.j) \in DOMAIN caches
             /\ Len(collectedCoins) > 0) =>
                LET key  == Key(cell.i, cell.j)
                    last == collectedCoins[Len(collectedCoins)]
                IN  /\ collectedCoins'
                          = SubSeq(collectedCoins, 1, Len(collectedCoins) - 1)
                    /\ DOMAIN caches' = DOMAIN caches
                    /\ caches'[key].coins
                          = Append(caches[key].coins,
                                   [cell |-> cell, serial |-> last.serial])
                    /\ \A k \in DOMAIN caches \ {key} : caches'[k] = caches[k]
      ]_vars

\* Two coins went into the inventory and came out into one cache, the later
\* serial first.
C3_Witness ==
    /\ lastEvent = "deposit"
    /\ collectedCoins = <<>>
    /\ \E k \in DOMAIN caches :
          /\ Len(caches[k].coins) = 2
          /\ caches[k].coins[1].serial > caches[k].coins[2].serial

\* C4. collect(cell, serial) with no cache at the cell, or no coin of that
\* serial in it, changes no cache, not the inventory and not the serial
\* counter.
C4_CollectMiss ==
    [][\A cell \in TransferCells, serial \in Serials :
          (Collect(cell, serial) /\ ~HasCoin(caches, cell, serial)) =>
              UNCHANGED <<caches, collectedCoins, globalSerialCounter>>]_vars

\* A collect missed while a cache held a coin.
C4_Witness ==
    /\ lastEvent = "collectNoop"
    /\ \E k \in DOMAIN caches : Len(caches[k].coins) > 0

\* C5. deposit(cell) with an empty inventory, or with no cache at the cell,
\* changes no cache and not the inventory: no coin leaves the inventory and
\* no cache is created.
C5_DepositMiss ==
    [][\A cell \in TransferCells :
          (/\ Deposit(cell)
           /\ \/ Len(collectedCoins) = 0
              \/ Key(cell.i, cell.j) \notin DOMAIN caches) =>
              UNCHANGED <<caches, collectedCoins>>]_vars

\* A deposit did nothing although the inventory held a coin: the cell had no
\* cache.
C5_Witness ==
    /\ lastEvent = "depositNoop"
    /\ Len(collectedCoins) > 0

\* C6. Round trip: in every reachable state, loading what saveGameState
\* writes gives the same player position, the same inventory in the same
\* order, and the same caches under the same keys with the same cells and
\* coin sequences.
C6_RoundTrip ==
    LET loaded ==
            loadGameState(
                saveGameState(playerPosition, collectedCoins, caches),
                [playerPosition |-> OAKES_CLASSROOM_POSITION,
                 origin         |-> OAKES_CLASSROOM_POSITION,
                 collectedCoins |-> <<>>,
                 caches         |-> EmptyStore])
    IN  /\ loaded.playerPosition = playerPosition
        /\ loaded.collectedCoins = collectedCoins
        /\ DOMAIN loaded.caches = DOMAIN caches
        /\ \A k \in DOMAIN caches :
              /\ loaded.caches[k].cell = caches[k].cell
              /\ loaded.caches[k].coins = caches[k].coins

\* A page load restored a snapshot with a moved player, a coin in the
\* inventory and a cache.
C6_Witness ==
    /\ lastEvent = "startup"
    /\ savedState # Null
    /\ playerPosition # OAKES_CLASSROOM_POSITION
    /\ Len(collectedCoins) > 0
    /\ DOMAIN caches # {}

\* C7. populateMap is idempotent: run again at the origin of the store it
\* has just generated, it leaves the same caches with the same coins and
\* serials, and creates no coin.
C7_Idempotent ==
    [][(/\ JustGenerated
        /\ lastEvent' \in {"reset", "geoToggle"}
        /\ origin' = origin) =>
            /\ caches' = caches
            /\ globalSerialCounter' = globalSerialCounter]_vars

\* C8. Spawn gate: right after populateMap, a cell of the grid around the
\* origin has a cache if and only if the luck of its key is below 0.05.
C8_SpawnGate ==
    JustGenerated =>
        \A n \in DOMAIN GridSeq :
            Key(GridSeq[n].i, GridSeq[n].j) \in DOMAIN caches
                <=> CellLuck(origin, GridSeq[n].i, GridSeq[n].j)
                        < CACHE_SPAWN_CHANCE

\* A reset has generated the world around the classroom, where one cell has
\* luck 0.03 and a cache, and one has luck 0.05 and none.
C8_Witness ==
    /\ lastEvent = "reset"
    /\ origin = OAKES_CLASSROOM_POSITION
    /\ \E n \in DOMAIN GridSeq :
          /\ CellLuck(origin, GridSeq[n].i, GridSeq[n].j) = 30
          /\ Key(GridSeq[n].i, GridSeq[n].j) \in DOMAIN caches
    /\ \E n \in DOMAIN GridSeq :
          /\ CellLuck(origin, GridSeq[n].i, GridSeq[n].j) = CACHE_SPAWN_CHANCE
          /\ Key(GridSeq[n].i, GridSeq[n].j) \notin DOMAIN caches

\* C9. Snapshot after every mutation: when a handler has changed the player
\* position, the inventory or the caches, the slot holds the serialization
\* of the new position, inventory and caches.
C9_SnapshotAfterMutation ==
    [][(/\ lastEvent' \notin {"startup", "startupError"}
        /\ <<playerPosition, collectedCoins, caches>>'
              # <<playerPosition, collectedCoins, caches>>) =>
            savedState'
                = saveGameState(playerPosition', collectedCoins', caches')]_vars

\* C10. Realization is permanent: a step that is no confirmed reset and no
\* page load keeps every cache of the store; a step that is also no collect
\* and no deposit keeps its coins too.
C10_RealizationPermanent ==
    [][lastEvent' \notin {"reset", "startup", "startupError"} =>
          /\ DOMAIN caches \subseteq DOMAIN caches'
          /\ lastEvent' \notin {"collect", "deposit"} =>
                \A k \in DOMAIN caches : caches'[k] = caches[k]]_vars

\* For each position of the window, the keys of the grid cells around it
\* whose luck is below the spawn chance.
LowLuckKeys ==
    [org \in Positions |->
        {Key(GridSeq[n].i, GridSeq[n].j) : n \in
            {m \in DOMAIN GridSeq :
                CellLuck(org, GridSeq[m].i, GridSeq[m].j) < CACHE_SPAWN_CHANCE}}]

\* C11. Reset requires confirmation: a click on reset answered with anything
\* but "yes" in some case, a cancelled prompt included, changes neither the
\* caches, the inventory, the player position, the origin, the serial
\* counter, the movement trail nor the slot.
C11_ResetNeedsYes ==
    [][\A answer \in Answers \ {<<"yes">>, <<"YES">>} :
          ResetClick(answer) =>
              UNCHANGED <<caches, collectedCoins, playerPosition, origin,
                          globalSerialCounter, movementHistory, lastPosition,
                          savedState>>]_vars

\* A reset was declined while the inventory held a coin and a trail was
\* drawn.
C11_Witness ==
    /\ lastEvent = "resetDeclined"
    /\ Len(collectedCoins) > 0
    /\ movementHistory # Null

\* C12. Confirmed reset: after it the inventory is empty, the store holds
\* exactly the caches generated around the player's position, each coin with
\* a serial no earlier coin had, the trail is removed, and the slot holds the
\* serialization of this state.
C12_ResetPostState ==
    [][(ResetClick(<<"yes">>) \/ ResetClick(<<"YES">>)) =>
          /\ collectedCoins' = <<>>
          /\ movementHistory' = Null
          /\ playerPosition' = playerPosition
          /\ origin' = playerPosition
          /\ DOMAIN caches' = LowLuckKeys[playerPosition]
          /\ \A slot \in CoinSlots(caches') :
                /\ caches'[slot[1]].coins[slot[2]].serial >= globalSerialCounter
                /\ caches'[slot[1]].coins[slot[2]].serial < globalSerialCounter'
          /\ savedState' = saveGameState(playerPosition', <<>>, caches')]_vars

\* A reset has discarded earlier coins: more serials were handed out than
\* coins are left.
C12_Witness ==
    /\ lastEvent = "reset"
    /\ DOMAIN caches # {}
    /\ collectedCoins = <<>>
    /\ globalSerialCounter > CoinTotal(caches, collectedCoins)

\* C13. Visibility exactness: in every state a handler leaves, the keys of
\* cacheMarkers are exactly the keys of the caches whose position, counted
\* from the origin, is within PLAYER_RADIUS metres of the player.
C13_VisibilityExact ==
    cacheMarkers
        = {k \in DOMAIN caches :
              DistanceSq(playerPosition,
                         getCachePosition(origin, caches[k].cell.i,
                                          caches[k].cell.j))
                  <= (PLAYER_RADIUS * 100) * (PLAYER_RADIUS * 100)}

\* A move has taken one cache out of range and left another in range.
C13_Witness ==
    /\ lastEvent = "move"
    /\ cacheMarkers # {}
    /\ DOMAIN caches \ cacheMarkers # {}

\* C14. Geolocation failure reverts to manual control: after the error
\* callback the geolocation flag is off, the watch is cleared and the four
\* directional buttons are enabled.
C14_GeoErrorReverts ==
    [][GeoError =>
          /\ ~geoLocation'
          /\ geoWatchId' = Null
          /\ watches' = {}
          /\ ~arrowsDisabled']_vars

\* C15. Corrupt persisted state is treated as absent: a page load that finds
\* malformed data in the slot ends without an error, with the freshly
\* generated caches, an empty inventory and the player at the default
\* position.
C15_CorruptSlotIsAbsent ==
    [][(savedState = <<MalformedText>> /\ Reload) =>
          /\ lastEvent' = "startup"
          /\ collectedCoins' = <<>>
          /\ playerPosition' = OAKES_CLASSROOM_POSITION
          /\ DOMAIN caches' = LowLuckKeys[OAKES_CLASSROOM_POSITION]]_vars

\* C16. Loaded caches are authoritative: a page load that finds a snapshot
\* in the slot leaves in the store exactly the snapshot's caches, each with
\* the snapshot's cell and coin sequence, and none that the startup
\* populateMap generated; a page load that finds the slot empty leaves the
\* freshly generated state: the caches around the default position with
\* this load's coins, an empty inventory, the player at the default position.
C16_LoadedAuthoritative ==
    [][(lastEvent' = "startup" /\ Reload) =>
          /\ (savedState # Null /\ IsJSON(savedState[1])) =>
                LET cacheState == savedState[1].cacheState
                IN  /\ DOMAIN caches'
                          = {cacheState[n].key : n \in 1..Len(cacheState)}
                    /\ \A n \in 1..Len(cacheState) :
                          /\ caches'[cacheState[n].key].cell
                                = cacheState[n].cache.cell
                          /\ caches'[cacheState[n].key].coins
                                = cacheState[n].cache.coins
          /\ savedState = Null =>
                /\ DOMAIN caches' = LowLuckKeys[OAKES_CLASSROOM_POSITION]
                /\ CoinTotal(caches', <<>>) = globalSerialCounter'
                /\ collectedCoins' = <<>>
                /\ playerPosition' = OAKES_CLASSROOM_POSITION]_vars

\* A page load has restored a store whose keys are not those the startup
\* populateMap generates.
C16_Witness ==
    /\ lastEvent = "startup"
    /\ savedState # Null
    /\ IsJSON(savedState[1])
    /\ DOMAIN caches # LowLuckKeys[OAKES_CLASSROOM_POSITION]

\* C17. Single subscription and cancellation: at most one position watch is
\* active in any state, no watch is active while geolocation is off, and so
\* no fix is delivered, and none changes the player position, the origin or
\* the markers, from the toggle off until the next toggle on.
C17_SingleWatch ==
    /\ [](/\ Cardinality(watches) <= 1
          /\ ~geoLocation => (watches = {} /\ geoWatchId = Null)
          /\ geoLocation => (geoWatchId # Null /\ watches = {geoWatchId[1]}))
    /\ [][~geoLocation => ~(\E pos \in FixPositions : GeoFix(pos))]_vars

\* Geolocation has been turned off after a fix had moved the player.
C17_Witness ==
    /\ lastEvent = "geoToggle"
    /\ ~geoLocation
    /\ watches = {}
    /\ playerPosition \in FixPositions

\* C18. Determinism across processes: a fresh process with an empty slot
\* realizes the same cache cells, with the same number of coins in each, as
\* any other fresh process at the same origin, whatever Math.random()
\* returns in either.
C18_FreshWorldsAgree ==
    (lastEvent = "startup" /\ savedState = Null) =>
        \A rands \in RandDraws(OAKES_CLASSROOM_POSITION) :
            LET other == populateMap(OAKES_CLASSROOM_POSITION, 0, rands).caches
            IN  /\ DOMAIN other = DOMAIN caches
                /\ \A k \in DOMAIN caches :
                      Len(other[k].coins) = Len(caches[k].coins)

\* C19. Collect then deposit is a round trip: for a cache that holds exactly
\* one coin, collect of that coin's serial at the cache's cell followed at
\* once by deposit at the same cell gives back the same caches, with the
\* same coin sequence in that cache and the coin's cell equal to the cache's
\* cell, and the same inventory; neither touches the serial counter.
C19_CollectDepositRoundTrip ==
    \A cell \in TransferCells :
        LET key == Key(cell.i, cell.j)
        IN  (key \in DOMAIN caches /\ Len(caches[key].coins) = 1) =>
                LET serial    == caches[key].coins[1].serial
                    collected == collect(caches, collectedCoins, cell, serial)
                    deposited == deposit(collected.caches, collected.inv, cell)
                IN  /\ collected.done
                    /\ Len(collected.caches[key].coins) = 0
                    /\ deposited.done
                    /\ deposited.caches = caches
                    /\ deposited.inv = collectedCoins
                    /\ deposited.caches[key].coins[1].cell = caches[key].cell

\* A deposit has left a cache with exactly one coin while the inventory
\* holds another coin.
C19_Witness ==
    /\ lastEvent = "deposit"
    /\ Len(collectedCoins) > 0
    /\ \E k \in DOMAIN caches : Len(caches[k].coins) = 1

\* Radii, in metres, below, at and above PLAYER_RADIUS.
Radii == {0, 10, 45, PLAYER_RADIUS, 55, 100}

\* C20. Visibility is monotonic in the radius: for the player position,
\* origin and store of any reachable state, a cache visible under a radius
\* is visible under every larger radius.
C20_VisibilityMonotonic ==
    \A r1 \in Radii, r2 \in Radii :
        r1 <= r2 =>
            VisibleWithin(caches, origin, playerPosition, r1)
                \subseteq VisibleWithin(caches, origin, playerPosition, r2)

\* After a move, one cache is visible under PLAYER_RADIUS and a second one
\* only under a larger radius.
C20_Witness ==
    /\ lastEvent = "move"
    /\ VisibleWithin(caches, origin, playerPosition, PLAYER_RADIUS) # {}
    /\ \E r \in Radii :
          /\ r > PLAYER_RADIUS
          /\ VisibleWithin(caches, origin, playerPosition, r)
                # VisibleWithin(caches, origin, playerPosition, PLAYER_RADIUS)

\* C21. Reload preserves what the player sees: when the slot holds the
\* snapshot of the current state, a page load leaves every cache at the
\* position it had and the same caches within PLAYER_RADIUS of the player.
C21_ReloadKeepsView ==
    [][(/\ lastEvent' = "startup"
        /\ savedState = saveGameState(playerPosition, collectedCoins, caches)
        /\ Reload) =>
          /\ \A k \in DOMAIN caches :
                getCachePosition(origin', caches'[k].cell.i, caches'[k].cell.j)
                    = getCachePosition(origin, caches[k].cell.i,
                                       caches[k].cell.j)
          /\ VisibleWithin(caches', origin', playerPosition', PLAYER_RADIUS)
                = VisibleWithin(caches, origin, playerPosition,
                                PLAYER_RADIUS)]_vars

\* C22. Lazy realization on movement: after a directional move, every cell
\* of the grid around the player's new position whose luck is below the
\* spawn chance has a cache in the store, at that cell's position.
C22_MoveRealizesWindow ==
    [][(\E direction \in Directions : movePlayer(direction)) =>
          \A key \in LowLuckKeys[playerPosition'] :
              \E k \in DOMAIN caches' :
                  getCachePosition(origin', caches'[k].cell.i,
                                   caches'[k].cell.j)
                      = getCachePosition(playerPosition', key[1], key[2])]_vars

\* C23. Every geolocation fix is fully processed: the callback ends without
\* an error, with the player at the fix, the fix appended to the trail when
\* it is far enough from the last point, and the markers recomputed.
C23_FixFullyProcessed ==
    [][\A pos \in FixPositions :
          GeoFix(pos) =>
              /\ lastEvent' = "geoFix"
              /\ playerPosition' = pos
              /\ MovedSignificantly(pos, lastPosition) =>
                    /\ movementHistory' # Null
                    /\ Len(movementHistory'[1]) > 0
                    /\ movementHistory'[1][Len(movementHistory'[1])] = pos
              /\ cacheMarkers'
                    = VisibleWithin(caches', origin', pos, PLAYER_RADIUS)]_vars

\* C24. Every cache populateMap creates starts with at least 1 and at most
\* COIN_FACTOR coins, whatever Math.random() returns, 0 included.
C24_InitialCoinsInRange ==
    JustGenerated =>
        \A k \in DOMAIN caches :
            /\ Len(caches[k].coins) >= 1
            /\ Len(caches[k].coins) <= COIN_FACTOR

\* C25. Only transfers relocate coins: a directional move or a geolocation
\* fix leaves every cache with its coins, the inventory and the serial
\* counter as they were; a move leaves the origin and the trail too.
C25_MovesKeepCoins ==
    [][/\ (\E direction \in Directions : movePlayer(direction)) =>
             UNCHANGED <<caches, collectedCoins, globalSerialCounter, origin,
                         movementHistory, lastPosition, geoLocation,
                         geoWatchId, watches, arrowsDisabled>>
       /\ (\E pos \in FixPositions : GeoFix(pos)) =>
             UNCHANGED <<caches, collectedCoins, globalSerialCounter,
                         geoLocation, geoWatchId, watches, arrowsDisabled,
                         savedState>>]_vars

\* A fix has arrived while a cache and the inventory each hold a coin.
C25_Witness ==
    /\ lastEvent = "geoFix"
    /\ Len(collectedCoins) > 0
    /\ CoinSlots(caches) # {}

\* C26. Cell consistency: in every state each cache is stored under the key
\* of its own cell and each coin in a cache has the cache's cell as its
\* cell; a collect leaves the collected coin's cell at the cell it was taken
\* from.
C26_CellConsistency ==
    /\ [](\A k \in DOMAIN caches :
            /\ k = Key(caches[k].cell.i, caches[k].cell.j)
            /\ \A n \in 1..Len(caches[k].coins) :
                  caches[k].coins[n].cell = caches[k].cell)
    /\ [][\A cell \in TransferCells, serial \in Serials :
            (Collect(cell, serial) /\ HasCoin(caches, cell, serial)) =>
                collectedCoins'[Len(collectedCoins')].cell = cell]_vars

\* A deposit has put a coin into a cache it was not created in: the cache
\* holds two coins, the earlier serial first.
C26_Witness ==
    /\ lastEvent = "deposit"
    /\ \E k \in DOMAIN caches :
          /\ Len(caches[k].coins) = 2
          /\ caches[k].coins[1].serial < caches[k].coins[2].serial

\* C27. Geolocation mode: in every state a handler leaves, the geolocation
\* flag is on exactly when a watch id is held and exactly when the four
\* directional buttons are disabled; so a directional move acts only with
\* the flag off and a fix only with the flag on.
C27_GeoMode ==
    /\ [](/\ geoLocation <=> geoWatchId # Null
          /\ geoLocation <=> arrowsDisabled)
    /\ [][/\ (\E direction \in Directions : movePlayer(direction)) =>
                ~geoLocation
          /\ (\E pos \in FixPositions : GeoFix(pos)) => geoLocation]_vars

\* Tracking is on after a fix: a watch id is held and the buttons are
\* disabled.
C27_Witness ==
    /\ lastEvent = "geoFix"
    /\ geoLocation
    /\ geoWatchId # Null
    /\ arrowsDisabled

====
